---------------------------- MODULE Spec2Model ----------------------------
(***************************************************************************)
(* respirator: a nom based parser of the Redis Serialization Protocol.     *)
(*                                                                         *)
(* Bytes are their codes (b'+' is 43), buffers are sequences of bytes.     *)
(* One call of resp() on a buffer is a run of dispatcher invocations: the  *)
(* first at the head of the buffer and, for an array, one per element,     *)
(* driven by nom's count().  Each invocation is one action; the frames of  *)
(* the count() loops in progress are kept on `stack`.  A caller pipelines  *)
(* by calling resp() again on the remainder of the previous call.          *)
(***************************************************************************)
EXTENDS Integers, Sequences, FiniteSets, TLC

\* ------------------------------------------------------------------ bytes

Plus   == 43
Colon  == 58
Minus  == 45
Dollar == 36
Star   == 42
CR     == 13
LF     == 10
Zero   == 48

Digits == Zero .. (Zero + 9)

\* ------------------------------------------------------------ nom results

\* Ok((rest, val))
Ok(rest, val) == [kind |-> "Ok", rest |-> rest, val |-> val]

\* Err(nom::Err::Error((input, ErrorKind)))
Err(code, i) == [kind |-> "Err", code |-> code, input |-> i]

\* panic!(..) or unwrap() of an Err: the thread unwinds, nothing is returned
Panic(msg) == [kind |-> "Panic", code |-> msg]

Drop(i, n) == SubSeq(i, n + 1, Len(i))

\* ----------------------------------------------------------------- values

None == <<>>
Some(x) == <<x>>

SimpleString(v) == [type |-> "SimpleString", val |-> v]
Integer(n)      == [type |-> "Integer", val |-> n]
Error(v)        == [type |-> "Error", val |-> v]
BulkString(o)   == [type |-> "BulkString", val |-> o]
Array(o)        == [type |-> "Array", val |-> o]

\* ------------------------------------------------------- nom combinators

\* bytes::complete::take(n)
take(n, i) ==
    IF Len(i) < n THEN Err("Eof", i)
    ELSE Ok(Drop(i, n), SubSeq(i, 1, n))

\* crlf written as character::complete::line_ending, which also takes "\n"
line_ending(i) ==
    IF Len(i) >= 2 /\ i[1] = CR /\ i[2] = LF
    THEN Ok(Drop(i, 2), <<CR, LF>>)
    ELSE IF Len(i) >= 1 /\ i[1] = LF THEN Ok(Drop(i, 1), <<LF>>)
    ELSE Err("CrLf", i)

\* character::complete::crlf
crlf(i) ==
    IF Len(i) >= 2 /\ i[1] = CR /\ i[2] = LF
    THEN Ok(Drop(i, 2), <<CR, LF>>)
    ELSE Err("CrLf", i)

\* input.position(|c| c == '\r' || c == '\n'), 0 for None
position(i) ==
    LET hits == {k \in 1..Len(i) : i[k] \in {CR, LF}}
    IN  IF hits = {} THEN 0
        ELSE CHOOSE k \in hits : \A j \in hits : k <= j

\* character::complete::not_line_ending: the bytes before the first CR or
\* LF; a CR that is not followed by LF is an error.
not_line_ending(i) ==
    LET index == position(i)
    IN  IF index = 0 THEN Ok(<<>>, i)
        ELSE IF i[index] = CR
             THEN IF index + 1 <= Len(i) /\ i[index + 1] = LF
                  THEN Ok(Drop(i, index - 1), SubSeq(i, 1, index - 1))
                  ELSE Err("Tag", i)
             ELSE Ok(Drop(i, index - 1), SubSeq(i, 1, index - 1))

\* the terminator written as a one byte tag: the LF stays in the input
line_leaves_lf(i) ==
    LET a == not_line_ending(i)
    IN  IF a.kind # "Ok" THEN a
        ELSE LET b == crlf(a.rest)
             IN  IF b.kind # "Ok" THEN b
                 ELSE Ok(Drop(a.rest, 1), a.val)

\* terminated(not_line_ending, crlf), as every line based decoder uses it:
\* not_line_ending's output, crlf's discarded
line(i) ==
    LET a == not_line_ending(i)
    IN  IF a.kind # "Ok" THEN a
        ELSE LET b == crlf(a.rest)
             IN  IF b.kind # "Ok" THEN b
                 ELSE Ok(b.rest, a.val)

\* --------------------------------------------------------- str::parse

RECURSIVE Horner(_, _)
Horner(acc, ds) ==
    IF ds = <<>> THEN acc
    ELSE Horner(acc * 10 + (Head(ds) - Zero), Tail(ds))

RECURSIVE StripZeros(_)
StripZeros(ds) ==
    IF ds # <<>> /\ Head(ds) = Zero THEN StripZeros(Tail(ds)) ELSE ds

\* a <= b for digit strings without leading zeros
RECURSIVE LexLeq(_, _)
LexLeq(a, b) ==
    IF a = <<>> THEN TRUE
    ELSE IF Head(a) # Head(b) THEN Head(a) < Head(b)
    ELSE LexLeq(Tail(a), Tail(b))

NumLeq(a, b) ==
    \/ Len(a) < Len(b)
    \/ Len(a) = Len(b) /\ LexLeq(a, b)

\* i64::MAX = 9223372036854775807, -i64::MIN = 9223372036854775808,
\* usize::MAX = 18446744073709551615 (64-bit target), as digit strings:
\* TLC's integers are narrower than 64 bits, so the checked_mul /
\* checked_add overflow tests of from_str_radix are decided on the digits.
I64MaxDigits == <<57,50,50,51,51,55,50,48,51,54,56,53,52,55,55,53,56,48,55>>
I64MinDigits == <<57,50,50,51,51,55,50,48,51,54,56,53,52,55,55,53,56,48,56>>
UsizeMaxDigits == <<49,56,52,52,54,55,52,52,48,55,51,55,48,57,53,53,49,54,49,53>>

AllDigits(ds) == \A k \in 1..Len(ds) : ds[k] \in Digits

\* String::from_utf8_lossy(val).parse::<i64>(): Some(n) for Ok(n), None for
\* Err(ParseIntError).  A byte that is not ASCII becomes U+FFFD, no digit.
parse_i64(s) ==
    IF s = <<>> THEN None
    ELSE LET signed == s[1] \in {Plus, Minus}
             ds == IF signed THEN Tail(s) ELSE s
             mag == StripZeros(ds)
         IN  IF ds = <<>> \/ ~AllDigits(ds) THEN None
             ELSE IF s[1] = Minus
                  THEN IF NumLeq(mag, I64MinDigits)
                       THEN Some(0 - Horner(0, mag)) ELSE None
                  ELSE IF NumLeq(mag, I64MaxDigits)
                       THEN Some(Horner(0, mag)) ELSE None

\* String::from_utf8_lossy(len).parse::<usize>(): an unsigned type takes a
\* leading '+' and no '-'.
parse_usize(s) ==
    IF s = <<>> THEN None
    ELSE LET ds == IF s[1] = Plus THEN Tail(s) ELSE s
             mag == StripZeros(ds)
         IN  IF ds = <<>> \/ ~AllDigits(ds) THEN None
             ELSE IF NumLeq(mag, UsizeMaxDigits)
                  THEN Some(Horner(0, mag)) ELSE None

\* Option/Result::unwrap()
unwrap(o) == o[1]

\* --------------------------------------------------------- the decoders

\* simple_string without terminated(.., crlf)
simple_string_unterminated(i) ==
    LET r == not_line_ending(i)
    IN  IF r.kind # "Ok" THEN r
        ELSE Ok(r.rest, SimpleString(r.val))

simple_string(i) ==
    LET r == line(i)
    IN  IF r.kind # "Ok" THEN r
        ELSE Ok(r.rest, SimpleString(r.val))

integer(i) ==
    LET r == line(i)
    IN  IF r.kind # "Ok" THEN r
        ELSE LET n == parse_i64(r.val)
             IN  IF n = None THEN Panic("ParseIntError")
                 ELSE Ok(r.rest, Integer(unwrap(n)))

\* error as a copy of simple_string with the variant left as it was
error_as_simple_string(i) ==
    LET r == line(i)
    IN  IF r.kind # "Ok" THEN r
        ELSE Ok(r.rest, SimpleString(r.val))

error(i) ==
    LET r == line(i)
    IN  IF r.kind # "Ok" THEN r
        ELSE Ok(r.rest, Error(r.val))

length(i) ==
    LET r == line(i)
    IN  IF r.kind # "Ok" THEN r
        ELSE LET n == parse_usize(r.val)
             IN  IF n = None THEN Panic("ParseIntError")
                 ELSE Ok(r.rest, unwrap(n))

\* take(len + 2) with the last two bytes dropped unseen
blob_unchecked_terminator(len, i) ==
    LET a == take(len + 2, i)
    IN  IF a.kind # "Ok" THEN a
        ELSE Ok(a.rest, SubSeq(a.val, 1, len))

\* terminated(take(len), crlf)
blob(len, i) ==
    LET a == take(len, i)
    IN  IF a.kind # "Ok" THEN a
        ELSE LET b == crlf(a.rest)
             IN  IF b.kind # "Ok" THEN b
                 ELSE Ok(b.rest, a.val)

\* bulk_string without the early return for len == 0
bulk_string_no_null(i) ==
    LET l == length(i)
    IN  IF l.kind # "Ok" THEN l
        ELSE LET r == blob(l.val, l.rest)
             IN  IF r.kind # "Ok" THEN r
                 ELSE Ok(r.rest, BulkString(Some(r.val)))

bulk_string(i) ==
    LET l == length(i)
    IN  IF l.kind # "Ok" THEN l
        ELSE IF l.val = 0 THEN Ok(l.rest, BulkString(None))
        ELSE LET r == blob(l.val, l.rest)
             IN  IF r.kind # "Ok" THEN r
                 ELSE Ok(r.rest, BulkString(Some(r.val)))

\* count with res.insert(0, o) for res.push(o)
RECURSIVE count_prepends(_, _)
count_prepends(stk, v) ==
    IF stk = <<>> THEN [stack |-> <<>>, done |-> Some(v)]
    ELSE LET top  == stk[Len(stk)]
             res  == <<v>> \o top.res
             below == SubSeq(stk, 1, Len(stk) - 1)
         IN  IF Len(res) = top.count
             THEN count_prepends(below, Array(Some(res)))
             ELSE [stack |-> Append(below, [count |-> top.count, res |-> res]),
                   done |-> None]

\* multi::count(resp, len): a frame is count's `res` and its bound.  An
\* element that came back Ok is pushed; when the loop has run `count` times
\* array() returns Array(Some(res)) to its own caller, which may be another
\* count().  `done` holds the value once it reaches resp()'s first caller.
RECURSIVE count(_, _)
count(stk, v) ==
    IF stk = <<>> THEN [stack |-> <<>>, done |-> Some(v)]
    ELSE LET top  == stk[Len(stk)]
             res  == Append(top.res, v)
             below == SubSeq(stk, 1, Len(stk) - 1)
         IN  IF Len(res) = top.count
             THEN count(below, Array(Some(res)))
             ELSE [stack |-> Append(below, [count |-> top.count, res |-> res]),
                   done |-> None]

\* ----------------------------------------------------------- the buffers

MaxRaw   == 3
MaxCount == 2
MaxDepth == 2
MaxUnits == 3

\* The five markers, the two terminator bytes, two digits and a letter.
Alphabet == {Plus, Colon, Minus, Dollar, Star, CR, LF, Zero, Zero + 1, 97}

SeqsOf(S, lo, hi) == UNION {[1..n -> S] : n \in lo..hi}

RawInputs == SeqsOf(Alphabet, 0, MaxRaw)

\* The wire format, written out from values (the inverse of the decoders).
RECURSIVE Dec(_)
Dec(n) == IF n < 10 THEN <<Zero + n>> ELSE Dec(n \div 10) \o <<Zero + (n % 10)>>

RECURSIVE Wires(_)
Wires(us) == IF Len(us) = 0 THEN <<>> ELSE Head(us).wire \o Wires(Tail(us))

RECURSIVE Values(_)
Values(us) == IF Len(us) = 0 THEN <<>> ELSE <<Head(us).value>> \o Values(Tail(us))

UnitSimpleString(p) ==
    [wire |-> <<Plus>> \o p \o <<CR, LF>>, value |-> SimpleString(p)]
UnitError(p) ==
    [wire |-> <<Minus>> \o p \o <<CR, LF>>, value |-> Error(p)]
UnitInteger(text, n) ==
    [wire |-> <<Colon>> \o text \o <<CR, LF>>, value |-> Integer(n)]
UnitBulkString(b) ==
    [wire |-> <<Dollar>> \o Dec(Len(b)) \o <<CR, LF>> \o b \o <<CR, LF>>,
     value |-> BulkString(Some(b))]
UnitBulkNone == [wire |-> <<Dollar, Zero, CR, LF>>, value |-> BulkString(None)]
UnitArray(us) ==
    [wire |-> <<Star>> \o Dec(Len(us)) \o <<CR, LF>> \o Wires(us),
     value |-> Array(Some(Values(us)))]
UnitArrayNone == [wire |-> <<Star, Zero, CR, LF>>, value |-> Array(None)]

Texts == {<<>>, <<97>>, <<Plus, 97>>}
Blobs == {<<97>>, <<CR, LF>>, <<LF, 97, CR>>}
IntegerUnits ==
    {UnitInteger(Dec(n), n) : n \in {0, 8, 12}}
    \cup {UnitInteger(<<Minus>> \o Dec(1), 0 - 1),
          UnitInteger(<<Plus>> \o Dec(8), 8),
          UnitInteger(<<Zero>> \o Dec(8), 8)}

Scalars ==
    {UnitSimpleString(p) : p \in Texts} \cup {UnitError(p) : p \in Texts}
    \cup IntegerUnits
    \cup {UnitBulkString(b) : b \in Blobs} \cup {UnitBulkNone}

Elems == {UnitSimpleString(<<97>>), UnitInteger(Dec(8), 8),
          UnitBulkString(<<CR, LF>>), UnitBulkNone}

FlatArrays == {UnitArray(es) : es \in SeqsOf(Elems, 1, MaxCount)}

RECURSIVE Arrays(_)
Arrays(d) ==
    IF d <= 1 THEN FlatArrays
    ELSE LET inner == Arrays(d - 1)
             x == UnitError(<<97>>)
         IN  {UnitArray(<<u>>) : u \in inner}
             \cup {UnitArray(<<u, x>>) : u \in inner}
             \cup {UnitArray(<<x, u>>) : u \in inner}

Units == Scalars \cup {UnitArrayNone} \cup UNION {Arrays(d) : d \in 1..MaxDepth}

PipeUnits == {UnitBulkString(<<97>>), UnitInteger(Dec(8), 8),
              UnitSimpleString(<<97>>), UnitError(<<>>), UnitBulkNone,
              UnitArray(<<UnitInteger(Dec(8), 8), UnitSimpleString(<<97>>)>>)}

Pipelines == SeqsOf(PipeUnits, 0, MaxUnits)

\* Every buffer built from correctly formed units, with the values it holds.
RECURSIVE Parts(_)
Parts(us) == IF Len(us) = 0 THEN <<>> ELSE <<Head(us).wire>> \o Parts(Tail(us))

UnitWires == {u.wire : u \in Units}

PipelineWires == {Wires(p) : p \in Pipelines}

WellFormedWires == UnitWires \cup PipelineWires

\* The unit, or the pipeline, a correctly formed buffer was built from.
UnitOf(b) == CHOOSE u \in Units : u.wire = b

PipelineOf(b) == CHOOSE p \in Pipelines : Wires(p) = b

\* Corrupted units: cut short, one byte replaced, one byte inserted.
MutBase == {u.wire : u \in Scalars \cup {UnitArrayNone} \cup FlatArrays}

Truncated == UNION {{SubSeq(w, 1, n) : n \in 0..(Len(w) - 1)} : w \in MutBase}

Replaced ==
    UNION {{[w EXCEPT ![k] = b] : k \in 1..Len(w), b \in Alphabet} : w \in MutBase}

Inserted ==
    UNION {{SubSeq(w, 1, k) \o <<b>> \o Drop(w, k) : k \in 0..Len(w), b \in Alphabet}
           : w \in MutBase}

\* A length line followed by anything.
Counted ==
    {<<m>> \o Dec(n) \o <<CR, LF>> \o x :
        m \in {Dollar, Star}, n \in 0..MaxCount, x \in RawInputs}

\* Numerals one past the 64-bit limits.
Overflowing ==
    {<<Colon>> \o I64MinDigits \o <<CR, LF>>,
     <<Colon, Minus>> \o I64MinDigits \o <<Zero, CR, LF>>,
     <<Dollar>> \o UsizeMaxDigits \o <<Zero, CR, LF>>,
     <<Star>> \o UsizeMaxDigits \o <<Zero, CR, LF>>}

Inputs ==
    RawInputs \cup WellFormedWires \cup Truncated \cup Replaced \cup Inserted
    \cup Counted \cup Overflowing

\* -------------------------------------------------------------- the state

VARIABLES
    buffer,       \* the bytes the caller holds
    input,        \* where the next dispatcher invocation starts
    stack,        \* the count() loops in progress, innermost last
    parsed,       \* the values resp() has returned to its caller, in order
    start,        \* the caller's input at its last call of resp()
    invocations,  \* dispatcher invocations made by that call so far
    pc,           \* "call" | "failed" | "panicked"
    failure       \* what the failing invocation reported

vars == <<buffer, input, stack, parsed, start, invocations, pc, failure>>

NoFailure == [code |-> "", input |-> <<>>, call |-> <<>>, depth |-> 0]

Init ==
    /\ buffer \in Inputs
    /\ input = buffer
    /\ stack = <<>>
    /\ parsed = <<>>
    /\ start = buffer
    /\ invocations = 0
    /\ pc = "call"
    /\ failure = NoFailure

\* resp() is entered: by the caller when no count() is running, else by
\* count() for the next element.
Enter ==
    /\ pc = "call"
    /\ start' = IF stack = <<>> THEN input ELSE start
    /\ invocations' = IF stack = <<>> THEN 1 ELSE invocations + 1
    /\ UNCHANGED buffer

\* The invocation ends with r.  Ok: the value goes to the caller or to the
\* count() that asked for it.  Err and panic: `?` hands the Err up through
\* every count() and array(), a panic unwinds them, and the caller is left
\* with the input it passed.
Finish(r) ==
    IF r.kind = "Ok"
    THEN LET c == count(stack, r.val)
         IN  /\ input' = r.rest
             /\ stack' = c.stack
             /\ parsed' = parsed \o c.done
             /\ pc' = "call"
             /\ UNCHANGED failure
    ELSE /\ input' = IF stack = <<>> THEN input ELSE start
         /\ stack' = <<>>
         /\ pc' = IF r.kind = "Err" THEN "failed" ELSE "panicked"
         /\ failure' = [code |-> r.code,
                        input |-> IF r.kind = "Err" THEN r.input ELSE <<>>,
                        call |-> input, depth |-> Len(stack)]
         /\ UNCHANGED parsed

\* take(1usize)(input)? on an empty input
RespEof ==
    /\ Enter
    /\ input = <<>>
    /\ Finish(take(1, input))

RespSimpleString ==
    /\ Enter
    /\ input # <<>> /\ input[1] = Plus
    /\ Finish(simple_string(Tail(input)))

RespInteger ==
    /\ Enter
    /\ input # <<>> /\ input[1] = Colon
    /\ Finish(integer(Tail(input)))

RespError ==
    /\ Enter
    /\ input # <<>> /\ input[1] = Minus
    /\ Finish(error(Tail(input)))

RespBulkString ==
    /\ Enter
    /\ input # <<>> /\ input[1] = Dollar
    /\ Finish(bulk_string(Tail(input)))

\* array(): with len > 0 it starts count(resp, len), whose first element is
\* the next invocation.
RespArray ==
    /\ Enter
    /\ input # <<>> /\ input[1] = Star
    /\ LET l == length(Tail(input))
       IN  IF l.kind # "Ok" THEN Finish(l)
           ELSE IF l.val = 0 THEN Finish(Ok(l.rest, Array(None)))
           ELSE /\ input' = l.rest
                /\ stack' = Append(stack, [count |-> l.val, res |-> <<>>])
                /\ UNCHANGED <<parsed, pc, failure>>

\* _ => panic!("Unknown type byte: {:?}", val)
RespUnknown ==
    /\ Enter
    /\ input # <<>> /\ input[1] \notin {Plus, Colon, Minus, Dollar, Star}
    /\ Finish(Panic("UnknownTypeByte"))

Next ==
    \/ RespEof
    \/ RespSimpleString
    \/ RespInteger
    \/ RespError
    \/ RespBulkString
    \/ RespArray
    \/ RespUnknown

Spec == Init /\ [][Next]_vars

\* ------------------------------------------------------------ the claims

Markers == {Plus, Colon, Minus, Dollar, Star}

VariantOf(m) ==
    CASE m = Plus -> "SimpleString"
      [] m = Colon -> "Integer"
      [] m = Minus -> "Error"
      [] m = Dollar -> "BulkString"
      [] m = Star -> "Array"

Last == parsed[Len(parsed)]

\* resp() has just returned Ok to its caller: `start` is what it was given,
\* `input` the remainder, Last the value.
Returned == pc = "call" /\ stack = <<>> /\ parsed # <<>>

\* Equality of values, variant first: values of two variants have payloads
\* of two kinds, which are not compared.
RECURSIVE SameValue(_, _)
RECURSIVE SameValues(_, _)
SameValue(a, b) ==
    /\ a.type = b.type
    /\ IF a.type \in {"BulkString", "Array"}
       THEN /\ Len(a.val) = Len(b.val)
            /\ Len(a.val) = 1 =>
                  IF a.type = "Array" THEN SameValues(a.val[1], b.val[1])
                  ELSE a.val[1] = b.val[1]
       ELSE a.val = b.val
SameValues(as, bs) ==
    /\ Len(as) = Len(bs)
    /\ \A k \in 1..Len(as) : SameValue(as[k], bs[k])

RECURSIVE Flatten(_)
Flatten(ws) == IF Len(ws) = 0 THEN <<>> ELSE Head(ws) \o Flatten(Tail(ws))

\* The units of a value tree: one dispatcher invocation each.
RECURSIVE Nodes(_)
RECURSIVE NodesOf(_)
Nodes(v) ==
    IF v.type = "Array" /\ v.val # None THEN 1 + NodesOf(v.val[1]) ELSE 1
NodesOf(vs) == IF Len(vs) = 0 THEN 0 ELSE Nodes(Head(vs)) + NodesOf(Tail(vs))

\* Index of the first CR that LF follows, 0 when there is none.
FirstCRLF(b) ==
    LET at == {k \in 1..(Len(b) - 1) : b[k] = CR /\ b[k + 1] = LF}
    IN  IF at = {} THEN 0 ELSE CHOOSE k \in at : \A j \in at : k <= j

\* An LF with no CR before it, ahead of the terminator.
BareLF(b) ==
    \E j \in 1..Len(b) :
        /\ b[j] = LF
        /\ j = 1 \/ b[j - 1] # CR
        /\ FirstCRLF(b) = 0 \/ j < FirstCRLF(b)

C2_Pipelining ==
    buffer \in PipelineWires =>
        LET p == PipelineOf(buffer)
            k == Len(p)
            i == Len(parsed)
        IN  /\ pc # "panicked"
            /\ i <= k
            /\ SameValues(parsed, SubSeq(Values(p), 1, i))
            /\ stack = <<>> => input = Flatten(SubSeq(Parts(p), i + 1, k))
            /\ pc = "failed" => i = k /\ input = <<>>

C2_Witness ==
    /\ buffer \in PipelineWires
    /\ Returned
    /\ Len(parsed) = 3
    /\ parsed[1].type = "BulkString" /\ parsed[2].type = "Integer"
    /\ parsed[3].type = "SimpleString"
    /\ input = <<>>

\* C3: an invocation that meets a first byte outside the five markers, at
\* the top or for an array element, ends as a failure value returned to the
\* caller, not as a panic.
C3_UnknownMarkerIsReturned ==
    (pc # "call" /\ failure.call # <<>> /\ failure.call[1] \notin Markers)
        => pc = "failed"

\* C4: a ':' unit whose terminated line is no 64-bit decimal integer ends as
\* a failure value returned to the caller, not as a panic.
C4_BadIntegerIsReturned ==
    (/\ pc # "call"
     /\ failure.call # <<>> /\ failure.call[1] = Colon
     /\ line(Tail(failure.call)).kind = "Ok")
        => pc = "failed"

\* C5: a '*' unit with count n > 0 takes n element invocations, one after
\* the other; it returns Array(Some(v)) with the n values in wire order and
\* the remainder after the n-th element; an element that fails fails the
\* whole call, which returns nothing.
C5_State ==
    /\ \A f \in 1..Len(stack) :
          Len(stack[f].res) < stack[f].count
    /\ (Returned /\ start[1] = Star /\ length(Tail(start)).val > 0) =>
          /\ Last.type = "Array" /\ Last.val # None
          /\ Len(Last.val[1]) = length(Tail(start)).val
          /\ invocations = Nodes(Last)
    /\ (buffer \in UnitWires /\ buffer[1] = Star /\ Returned) =>
          /\ SameValues(parsed, <<UnitOf(buffer).value>>)
          /\ input = <<>>
    /\ (buffer \in Truncated /\ buffer # <<>> /\ buffer[1] = Star) =>
          parsed = <<>> /\ pc # "panicked"

C5_Step ==
    (stack # <<>> /\ pc' # "call") =>
        /\ parsed' = parsed
        /\ stack' = <<>>
        /\ input' = start

\* C5, whole: the state part in every state, the failure part at every step.
C5_Array == []C5_State /\ [][C5_Step]_vars

C5_Witness ==
    /\ Returned
    /\ start[1] = Star
    /\ Last.val # None /\ Len(Last.val[1]) = 2
    /\ Last.val[1][1].type = "Integer" /\ Last.val[1][2].type = "BulkString"
    /\ input # <<>>

\* C6: a '$' unit with length n > 0 decodes exactly when n + 2 bytes follow
\* the length line and bytes n+1, n+2 of them are CR LF; the payload is the
\* first n bytes whatever they are, the remainder what follows the CR LF;
\* otherwise the invocation fails and returns nothing.
C6_Step ==
    (/\ pc = "call"
     /\ input # <<>> /\ input[1] = Dollar
     /\ length(Tail(input)).kind = "Ok"
     /\ length(Tail(input)).val > 0) =>
        LET n == length(Tail(input)).val
            body == length(Tail(input)).rest
        IN  IF Len(body) >= n + 2 /\ body[n + 1] = CR /\ body[n + 2] = LF
            THEN /\ pc' = "call"
                 /\ input' = Drop(body, n + 2)
                 /\ stack = <<>> =>
                       SameValues(parsed',
                           Append(parsed, BulkString(Some(SubSeq(body, 1, n)))))
            ELSE /\ pc' = "failed"
                 /\ parsed' = parsed

\* C6, at every step of every behaviour.
C6_BulkString == [][C6_Step]_vars

C6_Witness ==
    /\ Returned
    /\ SameValue(Last, BulkString(Some(<<LF, 97, CR>>)))
    /\ input # <<>>

\* C7: "$0\r\n" decodes to BulkString(None) and "*0\r\n" to Array(None), and
\* the remainder is whatever follows those four bytes.
C7_Absent ==
    \A m \in {Dollar, Star} :
        (Len(buffer) >= 4 /\ SubSeq(buffer, 1, 4) = <<m, Zero, CR, LF>>) =>
            /\ parsed = <<>> => pc = "call"
            /\ parsed # <<>> =>
                  SameValue(parsed[1], [type |-> VariantOf(m), val |-> None])
            /\ (Len(parsed) = 1 /\ stack = <<>> /\ start = buffer) =>
                  input = Drop(buffer, 4)

C7_Witness ==
    /\ buffer = <<Dollar, Zero, CR, LF, CR, LF>>
    /\ SameValues(parsed, <<BulkString(None)>>)
    /\ input = <<CR, LF>>
    /\ pc = "call"

\* C8: a '+' or '-' unit fails when no CR LF follows in the buffer or an LF
\* without CR comes first; when it decodes, the payload is the bytes before
\* the first CR LF and the remainder starts after it.
C8_Step ==
    (pc = "call" /\ input # <<>> /\ input[1] \in {Plus, Minus}) =>
        LET body == Tail(input)
            t == FirstCRLF(body)
        IN  /\ (t = 0 \/ BareLF(body)) => pc' = "failed" /\ parsed' = parsed
            /\ pc' = "call" =>
                  /\ t > 0
                  /\ input' = Drop(body, t + 1)
                  /\ stack = <<>> =>
                        SameValues(parsed',
                            Append(parsed, [type |-> VariantOf(input[1]),
                                            val |-> SubSeq(body, 1, t - 1)]))

\* C8, at every step of every behaviour.
C8_Line == [][C8_Step]_vars

C8_Witness ==
    /\ pc = "failed"
    /\ failure.call # <<>> /\ failure.call[1] = Minus
    /\ failure.code = "CrLf"
    /\ failure.input # <<>> /\ failure.input[1] = LF
    /\ FirstCRLF(failure.call) > 0

\* C9: a '$' or '*' unit decodes only when its length line is a non-empty
\* run of decimal digits, without a sign.
C9_LengthIsDigits ==
    (Returned /\ start[1] \in {Dollar, Star}) =>
        LET text == SubSeq(start, 2, FirstCRLF(start) - 1)
        IN  text # <<>> /\ AllDigits(text)

\* C10: a call that returns Ok leaves a proper suffix of what it was given,
\* at least 3 bytes shorter, so the calls that succeed on a buffer number at
\* most a third of its length.
C10_Progress ==
    /\ Returned =>
          /\ Len(start) - Len(input) >= 3
          /\ input = Drop(start, Len(start) - Len(input))
    /\ 3 * Len(parsed) <= Len(buffer)

C10_Witness ==
    /\ Returned
    /\ Len(start) - Len(input) = 3
    /\ input # <<>>
    /\ buffer \notin WellFormedWires

=============================================================================
